---------------------------- MODULE Spec2Model ----------------------------
(***************************************************************************)
(* VRDriverForDesktop: the shared-memory bridge between ClientApp (the     *)
(* producer, client.cpp main) and the OpenVR driver (the consumer,         *)
(* driver.cpp CServerDriver_ForDesktop::RunFrame), and the per-frame       *)
(* device state the driver derives from the telemetry it takes.            *)
(*                                                                         *)
(* Units.  Angles are kept in units of 1/3600 rad so that both kinds of    *)
(* increment are integers: a rotation delta fmod(d, 90) / 360 is           *)
(* 10 * fmod(d, 90) units and a pointer step of 0.01 rad is 36 units.      *)
(* Positions are kept in units of 0.01.                                    *)
(***************************************************************************)
EXTENDS Integers, Sequences, FiniteSets, TLC

(***************************************************************************)
(* Bounds of the model.                                                    *)
(***************************************************************************)
\* recv() calls the producer makes before the connection closes
MaxRecv == 2
\* frames the host drives in the bounded specifications
MaxFrames == 3
\* bytes of the shared segment that the model keeps (offsets 0 .. Cap-1)
Cap == 4
\* recv() calls and frames in the specification of the keys and the pointer
MaxInputRecv == 1
MaxInputFrames == 4
\* frames in the specification of the latches
MaxLatchFrames == 7

(***************************************************************************)
(* Bytes.  The segment and the receive buffer hold C strings; a byte is a  *)
(* one-character string and NUL is the terminator.                         *)
(***************************************************************************)
NUL == "NUL"

\* the byte both sides compare SharedRam[0] with
FlagX == "x"

\* the "id" member of an abbreviated object: 0, 1, another number, or "-"
\* for an object without the member
IdBytes == {"0", "1", "2", "-"}

\* the other members of an abbreviated object: five sets of values, or "m"
\* for an object without any of them
DataBytes == {"a", "b", "c", "d", "e", "m"}

Bytes == {NUL, FlagX, "{", "n"} \cup IdBytes \cup DataBytes

Zero3 == <<0, 0, 0>>

Zero2 == <<0, 0>>

(***************************************************************************)
(* What the network can deliver in one recv(): a telemetry object for the  *)
(* right hand, for the left hand, for an unknown id, text that is not      *)
(* JSON, and text whose first byte is 'x'.  A JSON text is abbreviated to  *)
(* three bytes: '{', the id, and the rest of the object.                   *)
(***************************************************************************)
RecRight == <<"{", "0", "b">>

RecLeft == <<"{", "1", "b">>

RecRightZero == <<"{", "0", "a">>

RecUnknown == <<"{", "2", "b">>

RecMalformed == <<"{", "n">>

RecX == <<"x", "0", "b">>

RecvBufs == {RecRight, RecLeft, RecUnknown, RecMalformed, RecX}

\* records whose rotation sample is the initial one: every delta is zero
RecvBufsStill == {RecRightZero, <<"{", "1", "a">>, RecMalformed, RecX}

\* right-hand records whose rotation samples differ by more and by less
\* than a quarter turn, in both directions
RecRotC == <<"{", "0", "c">>

RecRotD == <<"{", "0", "d">>

\* the object {} and objects that lack some members
RecEmptyObject == <<"{", "-", "m">>

RecNoId == <<"{", "-", "b">>

RecIdOnly == <<"{", "1", "m">>

\* {"id":0,"translation":[1,0,0],"rotation":[0,0,0],"trackpad":[0,0],
\*  "clicked":false,"trigger":0}
RecScenario == <<"{", "0", "e">>

\* what recv() delivers in the specification of the decoder
DecodeBufs ==
  {RecRotC, RecRotD, <<"{", "1", "c">>, RecEmptyObject, RecNoId, RecIdOnly}

(***************************************************************************)
(* C strings in memory.                                                    *)
(***************************************************************************)
\* the byte at offset i of the C string s (its terminator included)
CStrByte(s, i) == IF i < Len(s) THEN s[i + 1] ELSE NUL

\* the length of the C string that starts at offset 0 of memory m
RECURSIVE CStrLenFrom(_, _)
CStrLenFrom(m, i) ==
  IF i >= Cap \/ m[i] = NUL THEN i ELSE CStrLenFrom(m, i + 1)

\* std::string(SharedRam): the bytes from offset 0 up to the first NUL
CStrAt(m) == [k \in 1..CStrLenFrom(m, 0) |-> m[k - 1]]


(***************************************************************************)
(* Telemetry decoding (driver.cpp 810-829).                                *)
(***************************************************************************)
\* picojson::parse: the error string is empty exactly for a JSON text
ParseOk(js) ==
  /\ Len(js) = 3
  /\ js[1] = "{"
  /\ js[2] \in IdBytes
  /\ js[3] \in DataBytes

\* whether the object holds "id", and whether it holds the other members
HasId(js) == js[2] # "-"

HasFields(js) == js[3] # "m"

GetValue_NoDefault(present, val, default) == val

\* GetDoubleValue, GetDoubleArry, GetBoolValue: the member's value when the
\* object holds it, the default (0.0, false) when it does not
GetValue(present, val, default) == IF present THEN val ELSE default

\* GetDoubleValue(controllerid, j, "id").  The local of line 816 has no
\* initialiser: the value for an object without "id" is the getter's.
JsonId(js) ==
  GetValue(HasId(js),
           CASE js[2] = "0" -> 0 [] js[2] = "1" -> 1 [] OTHER -> 2, 0)

\* GetDoubleArry(controllerRot, 3, j, "rotation"), degrees
JsonRot(js) ==
  GetValue(HasFields(js),
           CASE js[3] = "b" -> <<10, 20, 30>>
             [] js[3] = "c" -> <<85, 5, 185>>
             [] js[3] = "d" -> <<5, 85, -5>>
             [] OTHER -> Zero3, Zero3)

\* GetDoubleArry(controllerPos, 3, j, "translation")
JsonPos(js) ==
  GetValue(HasFields(js),
           IF js[3] \in {"b", "e"} THEN <<100, 0, 0>> ELSE Zero3, Zero3)

\* GetDoubleArry(trackpadValues, 2, j, "trackpad")
JsonTrackpad(js) ==
  GetValue(HasFields(js), IF js[3] = "b" THEN <<1, 0>> ELSE Zero2, Zero2)

\* GetBoolValue(trackpadClicked, j, "clicked")
JsonClicked(js) == GetValue(HasFields(js), js[3] = "b", FALSE)

\* GetDoubleValue(triggerValue, j, "trigger")
JsonTrigger(js) == GetValue(HasFields(js), IF js[3] = "b" THEN 1 ELSE 0, 0)

(***************************************************************************)
(* Rotation delta (driver.cpp 831-837).                                    *)
(***************************************************************************)
Fmod_Floored(a, b) == a % b

\* C fmod on integral operands: the result has the sign of the dividend
Fmod(a, b) == IF a >= 0 THEN a % b ELSE -((-a) % b)

\* controllerRotDiff, in units of 1/3600: fmod(cur - pre, 90.0) / 360.0
RotDiff(cur, pre) == [i \in 1..3 |-> 10 * Fmod(cur[i] - pre[i], 90)]

(***************************************************************************)
(* CForDesktopControllerDriver (driver.cpp 468-740).                       *)
(***************************************************************************)
\* the member initialisers of lines 713-721
NewController ==
  [controller_roll |-> 0, controller_pitch |-> 0, controller_yaw |-> 0,
   posCorrectionValues |-> Zero3, rawPosValues |-> Zero3,
   rotDiffValues |-> Zero3, trackpadValues |-> Zero2,
   trackpadClicked |-> FALSE, triggerValue |-> 0]

\* the roll, pitch and yaw accumulators of a hand
Angles(c) == <<c.controller_roll, c.controller_pitch, c.controller_yaw>>

setInputValues(c, pos, rot, tpv, tpc, trig) ==
  [c EXCEPT !.rawPosValues = pos, !.rotDiffValues = rot,
            !.trackpadValues = tpv, !.trackpadClicked = tpc,
            !.triggerValue = trig]

setRotDiffNone(c) == [c EXCEPT !.rotDiffValues = Zero3]

\* the state GetPose leaves behind: the two calibration triggers, then the
\* rotation delta added to the accumulators (lines 602-625)
ControllerGetPose(c, keys, head_front) ==
  LET c1 == IF "VK_HOME" \in keys
            THEN [c EXCEPT !.posCorrectionValues = c.rawPosValues,
                           !.controller_roll = 0, !.controller_yaw = 0,
                           !.controller_pitch = head_front]
            ELSE c
      c2 == IF "VK_END" \in keys
            THEN [c1 EXCEPT !.controller_roll = 0, !.controller_yaw = 0,
                            !.controller_pitch = head_front]
            ELSE c1
  IN [c2 EXCEPT !.controller_roll = @ + c2.rotDiffValues[1],
                !.controller_pitch = @ + c2.rotDiffValues[2],
                !.controller_yaw = @ + c2.rotDiffValues[3]]

(***************************************************************************)
(* CForDesktopDeviceDriver, the head (driver.cpp 142-462).                 *)
(***************************************************************************)
\* A double member that may never have been given a value: <<>> until it is
\* assigned, <<v>> after.  Reading it while it is <<>> yields any value.
Undef == <<>>

Def(v) == <<v>>

\* the values an uninitialised double may be read as
Indeterminate == {0, 36}

ReadOf(m) == IF m = Undef THEN Indeterminate ELSE {m[1]}

\* m += k
Plus(m, k) == IF m = Undef THEN Undef ELSE Def(m[1] + k)

HeadGetPose_AlwaysIntegrates(hd, locked, keys, dx, dy) ==
  LET h1 == [hd EXCEPT !.head_pitch = @ + 36 * dx, !.head_roll = @ + 36 * dy]
      h2 == IF "VK_END" \in keys
            THEN [h1 EXCEPT !.head_yaw = 0, !.frontDire = <<h1.head_pitch>>]
            ELSE h1
      h3 == IF "VK_PRIOR" \in keys
            THEN [h2 EXCEPT !.y = IF @ = <<>> THEN @ ELSE <<@[1] + 1>>]
            ELSE h2
      h4 == IF "VK_NEXT" \in keys
            THEN [h3 EXCEPT !.y = IF @ = <<>> THEN @ ELSE <<@[1] - 1>>]
            ELSE h3
  IN IF "VK_HOME" \in keys
     THEN [h4 EXCEPT !.x = <<0>>, !.y = <<0>>, !.z = <<0>>]
     ELSE h4

HeadGetPose_PointerToYaw(hd, locked, keys, dx, dy) ==
  LET h1 == IF locked
            THEN [hd EXCEPT !.head_yaw = @ + 36 * dx,
                            !.head_roll = @ + 36 * dy]
            ELSE hd
      h2 == IF "VK_END" \in keys
            THEN [h1 EXCEPT !.head_yaw = 0, !.frontDire = Def(h1.head_pitch)]
            ELSE h1
      h3 == IF "VK_PRIOR" \in keys THEN [h2 EXCEPT !.y = Plus(@, 1)] ELSE h2
      h4 == IF "VK_NEXT" \in keys THEN [h3 EXCEPT !.y = Plus(@, -1)] ELSE h3
  IN IF "VK_HOME" \in keys
     THEN [h4 EXCEPT !.x = Def(0), !.y = Def(0), !.z = Def(0)]
     ELSE h4

\* the state GetPose leaves behind (lines 361-407).  dx, dy are the pointer's
\* offsets from the screen centre, in pixels.  The four arrow keys, whose
\* step is 0.01 * cos/sin(head_pitch), are never among the sampled keys.
HeadGetPose(hd, locked, keys, dx, dy) ==
  LET h1 == IF locked
            THEN [hd EXCEPT !.head_pitch = @ + 36 * dx,
                            !.head_roll = @ + 36 * dy]
            ELSE hd
      h2 == IF "VK_END" \in keys
            THEN [h1 EXCEPT !.head_yaw = 0, !.frontDire = Def(h1.head_pitch)]
            ELSE h1
      h3 == IF "VK_PRIOR" \in keys THEN [h2 EXCEPT !.y = Plus(@, 1)] ELSE h2
      h4 == IF "VK_NEXT" \in keys THEN [h3 EXCEPT !.y = Plus(@, -1)] ELSE h3
  IN IF "VK_HOME" \in keys
     THEN [h4 EXCEPT !.x = Def(0), !.y = Def(0), !.z = Def(0)]
     ELSE h4

(***************************************************************************)
(* The positions of the poses (driver.cpp 409-411, 602, 614-621).  A hand  *)
(* position is kept as the three things it is composed of: the point       *)
(* local = (lx, ly, lz) in the head's frame, the angle front and the       *)
(* origin (ox, oy, oz), standing for                                       *)
(*   (lx cos front + lz sin front + ox, ly + oy,                           *)
(*    lz cos front - lx sin front + oz).                                   *)
(* front and the origin are members of the head as the hand reads them:    *)
(* <<v>>, or <<>> for a member without a value.                            *)
(***************************************************************************)
\* lines 614-617, in units of 0.01
ControllerLocal(c, controllerIndex) ==
  <<c.rawPosValues[1] - c.posCorrectionValues[1]
      + 20 * (1 - 2 * controllerIndex),
    c.rawPosValues[2] - c.posCorrectionValues[2] - 30,
    c.rawPosValues[3] - c.posCorrectionValues[3] - 30>>

\* member m of the head as controller i reads it through its head pointer:
\* only m_pController_l's pointer was ever set (lines 780, 787)
HeadMemberRead(i, m) == IF i = 1 THEN m ELSE Undef

\* lines 619-621
ControllerPosition(c, i, hd) ==
  [local |-> ControllerLocal(c, i),
   front |-> HeadMemberRead(i, hd.frontDire),
   origin |-> <<HeadMemberRead(i, hd.x), HeadMemberRead(i, hd.y),
                HeadMemberRead(i, hd.z)>>]

\* lines 409-411
HeadPosition(hd) == <<hd.x, hd.y, hd.z>>

(***************************************************************************)
(* The validity fields of the poses (driver.cpp 350-353, 586-594).         *)
(***************************************************************************)
HeadPoseFlags ==
  [poseIsValid |-> TRUE, result |-> "Running_OK", deviceIsConnected |-> TRUE]

ControllerPoseFlags_AlwaysOK(locked) == HeadPoseFlags

\* lines 586-594: locked is rCtrlIsLocked
ControllerPoseFlags(locked) ==
  [poseIsValid |-> locked,
   result |-> IF locked THEN "Running_OK" ELSE "Running_OutOfRange",
   deviceIsConnected |-> TRUE]

(***************************************************************************)
(* CServerDriver_ForDesktop::RunFrame, lines 808-851: decode the payload   *)
(* and route it to a hand.  hs[0] is m_pController_r, hs[1] is             *)
(* m_pController_l.                                                        *)
(***************************************************************************)
RouteById_NoClear(id, hs, pos, diff, tpv, tpc, trig) ==
  IF id = 0
  THEN [hs EXCEPT ![0] = setInputValues(hs[0], pos, diff, tpv, tpc, trig)]
  ELSE IF id = 1
  THEN [hs EXCEPT ![1] = setInputValues(hs[1], pos, diff, tpv, tpc, trig)]
  ELSE hs

\* lines 839-849
RouteById(id, hs, pos, diff, tpv, tpc, trig) ==
  IF id = 0
  THEN [hs EXCEPT ![0] = setInputValues(hs[0], pos, diff, tpv, tpc, trig),
                  ![1] = setRotDiffNone(hs[1])]
  ELSE IF id = 1
  THEN [hs EXCEPT ![1] = setInputValues(hs[1], pos, diff, tpv, tpc, trig),
                  ![0] = setRotDiffNone(hs[0])]
  ELSE hs

\* the hands after lines 808-851
DecodedHands(has, js, pre, hs) ==
  IF has /\ ParseOk(js)
  THEN RouteById(JsonId(js), hs, JsonPos(js), RotDiff(JsonRot(js), pre),
                 JsonTrackpad(js), JsonClicked(js), JsonTrigger(js))
  ELSE hs

DecodedPreRot_Keep(has, js, pre) == pre

\* preControllerRot after lines 808-851 (the memcpy of line 837)
DecodedPreRot(has, js, pre) == IF has /\ ParseOk(js) THEN JsonRot(js) ELSE pre

(***************************************************************************)
(* The quaternions of the poses (driver.cpp 413-426, 627-640).  cos and    *)
(* sin of a half angle are known here by cos^2 + sin^2 = 1 alone: the pair *)
(* <<cos, sin>> is a point with integer coordinates on the circle of       *)
(* radius Radius, and a quaternion component is an integer in units of     *)
(* 1 / Radius^3.                                                           *)
(***************************************************************************)
Radius == 5

UnitCircle ==
  {p \in (-Radius..Radius) \X (-Radius..Radius) :
     p[1] * p[1] + p[2] * p[2] = Radius * Radius}

\* lines 415-426: y, r, p are the pairs of head_yaw * 0.5, head_roll * 0.5
\* and head_pitch * 0.5; the result is <<w, x, y, z>>
HeadQuaternion(y, r, p) ==
  LET t0 == y[1]
      t1 == y[2]
      t2 == r[1]
      t3 == r[2]
      t4 == p[1]
      t5 == p[2]
  IN <<t0 * t2 * t4 + t1 * t3 * t5,
       t0 * t3 * t4 - t1 * t2 * t5,
       t0 * t2 * t5 + t1 * t3 * t4,
       t1 * t2 * t4 - t0 * t3 * t5>>

ControllerQuaternion_PlusZ(y, r, p) ==
  LET cR == r[1]
      sR == r[2]
      cP == p[1]
      sP == p[2]
      cY == y[1]
      sY == y[2]
  IN <<cR * cP * cY + sR * sP * sY,
       sR * cP * cY - cR * sP * sY,
       cR * sP * cY + sR * cP * sY,
       sR * sP * cY + cR * cP * sY>>

\* lines 629-640
ControllerQuaternion(y, r, p) ==
  LET cR == r[1]
      sR == r[2]
      cP == p[1]
      sP == p[2]
      cY == y[1]
      sY == y[2]
  IN <<cR * cP * cY + sR * sP * sY,
       sR * cP * cY - cR * sP * sY,
       cR * sP * cY + sR * cP * sY,
       (-sR) * sP * cY + cR * cP * sY>>

\* the squared norm of a quaternion, in units of 1 / Radius^6
Norm2(q) == q[1] * q[1] + q[2] * q[2] + q[3] * q[3] + q[4] * q[4]

(***************************************************************************)
(* State.                                                                  *)
(***************************************************************************)
VARIABLES
  seg,          \* the shared segment "pipe": offset -> byte
  opened,       \* per process: whether its SharedMemory comm("pipe") opened
  accessed,     \* the processes that have dereferenced comm.get_pointer()
  ppc,          \* producer: position in main
  recvbuf,      \* producer: the C string recv() left in recvbuf
  pidx,         \* producer: index into the writes of comm.print
  recvs,        \* recv() calls so far
  cpc,          \* consumer: position in RunFrame
  shramhasdata, \* consumer: the local of line 807
  json,         \* consumer: the std::string of line 810
  frames,       \* frames started so far
  preControllerRot,
  hands,        \* 0: *m_pController_r, 1: *m_pController_l
  head,         \* *m_pNullHmdLatest
  objectId,     \* per device: m_unObjectId is a valid index
  poses,        \* per device: the last pose given to TrackedDevicePoseUpdated
  mouseIsLocked,
  mouseMidOnIsContinuing,
  rCtrlIsLocked,
  rCtrlOnIsCOntinuing,
  lastEv,       \* history: the last handshake event
  server,       \* g_serverDriverNull: its three device pointers, and the
                \* position of the host in Init / Cleanup
  heap,         \* per device object: allocated, times released, and the
                \* controller's member head
  badDerefs,    \* history: the lines that dereferenced a pointer that is
                \* null or was never set
  quat          \* the quaternion computation on its own: inputs and result

vars ==
  <<seg, opened, accessed, ppc, recvbuf, pidx, recvs, cpc, shramhasdata,
    json, frames, preControllerRot, hands, head, objectId, poses,
    mouseIsLocked, mouseMidOnIsContinuing, rCtrlIsLocked, rCtrlOnIsCOntinuing,
    lastEv, server, heap, badDerefs, quat>>

producerVars == <<ppc, recvbuf, pidx, recvs>>

consumerVars == <<cpc, shramhasdata, json, frames>>

deviceVars ==
  <<preControllerRot, hands, head, objectId, poses, server, heap, badDerefs,
    quat>>

latchVars ==
  <<mouseIsLocked, mouseMidOnIsContinuing, rCtrlIsLocked, rCtrlOnIsCOntinuing>>

Procs == {"producer", "consumer"}

Devices == {"hmd", "r", "l"}

\* line 444: x, y, z and frontDire have no initialiser
NewHead ==
  [head_yaw |-> 0, head_pitch |-> 0, head_roll |-> 0,
   x |-> Undef, y |-> Undef, z |-> Undef, frontDire |-> Undef]

\* no pose has been given to the host yet
NoPose ==
  [emitted |-> FALSE, frame |-> 0, poseIsValid |-> FALSE, result |-> "none",
   deviceIsConnected |-> FALSE, vecPosition |-> <<>>, angles |-> <<>>]

\* a pose given to the host in frame n: the validity fields, the position
\* and the three angles qRotation is computed from
Emitted(flags, n, pos, ang) ==
  [emitted |-> TRUE, frame |-> n, poseIsValid |-> flags.poseIsValid,
   result |-> flags.result, deviceIsConnected |-> flags.deviceIsConnected,
   vecPosition |-> pos, angles |-> ang]

\* a handshake event: the producer's start-up write, a completed print, a
\* frame that found no data, a frame that took a payload
Event(kind, rec) == [kind |-> kind, rec |-> rec, tick |-> 1 - lastEv.tick]

\* lines 759-761: the three pointers start as nullptr
NewServer ==
  [pc |-> "start", m_pNullHmdLatest |-> "nullptr",
   m_pController_r |-> "nullptr", m_pController_l |-> "nullptr"]

\* no device object exists.  head is the member of line 711, which has no
\* initialiser: "unset" until setHead stores a pointer in it.
NoObject == [allocated |-> FALSE, released |-> 0, head |-> "unset"]

\* the server once Init has returned (lines 773-792)
ReadyServer ==
  [pc |-> "ready", m_pNullHmdLatest |-> "hmd", m_pController_r |-> "r",
   m_pController_l |-> "l"]

\* the objects once Init has returned: setHead has run for m_pController_l
\* only, and line 780 went through m_pController_l while it was nullptr
ReadyHeap ==
  [d \in Devices |->
     [allocated |-> TRUE, released |-> 0,
      head |-> IF d = "l" THEN "hmd" ELSE "unset"]]

\* the quaternion computation is not under study
NoQuat == [pc |-> "none", yaw |-> <<>>, roll |-> <<>>, pitch |-> <<>>,
           q |-> <<>>]

\* the bridge before either side has touched the segment, and the device
\* state of the member initialisers
InitBridge(openings) ==
  /\ seg = [i \in 0..(Cap - 1) |-> NUL]
  /\ opened \in openings
  /\ accessed = {}
  /\ ppc = "open"
  /\ recvbuf = <<>>
  /\ pidx = 1
  /\ recvs = 0
  /\ cpc = "idle"
  /\ shramhasdata = FALSE
  /\ json = <<>>
  /\ frames = 0
  /\ preControllerRot = Zero3
  /\ hands = [i \in {0, 1} |-> NewController]
  /\ head = NewHead
  /\ poses = [d \in Devices |-> NoPose]
  /\ mouseIsLocked = FALSE
  /\ mouseMidOnIsContinuing = FALSE
  /\ rCtrlIsLocked = TRUE
  /\ rCtrlOnIsCOntinuing = FALSE
  /\ lastEv = [kind |-> "none", rec |-> <<>>, tick |-> 0]

\* the state in which the host starts calling RunFrame: Init has returned
\* and the three devices are activated
InitReady(openings) ==
  /\ InitBridge(openings)
  /\ server = ReadyServer
  /\ heap = ReadyHeap
  /\ badDerefs = {780}
  /\ objectId = [d \in Devices |-> TRUE]

InitWith(openings) == InitReady(openings) /\ quat = NoQuat

\* both processes mapped the segment
Init == InitWith({[p \in Procs |-> TRUE]})

(***************************************************************************)
(* The producer: client.cpp main, lines 103-141.                           *)
(***************************************************************************)
\* lines 103-107: return -1 unless the segment opened
P_Open ==
  /\ ppc = "open"
  /\ ppc' = IF opened["producer"] THEN "init" ELSE "exit"
  /\ UNCHANGED <<seg, opened, accessed, recvbuf, pidx, recvs, consumerVars,
                 deviceVars, latchVars, lastEv>>

\* lines 109-111: SharedRam[0] = '\0'
P_Init ==
  /\ ppc = "init"
  /\ seg' = [seg EXCEPT ![0] = NUL]
  /\ accessed' = accessed \cup {"producer"}
  /\ ppc' = "recv"
  /\ lastEv' = Event("start", <<>>)
  /\ UNCHANGED <<opened, recvbuf, pidx, recvs, consumerVars, deviceVars,
                 latchVars>>

\* lines 116-122: recv() leaves a C string from bufs in recvbuf
P_Recv(bufs) ==
  /\ ppc = "recv"
  /\ \E r \in bufs : recvbuf' = r
  /\ ppc' = "check"
  /\ UNCHANGED <<seg, opened, accessed, pidx, consumerVars, deviceVars,
                 latchVars, lastEv>>

\* lines 123-134: the connection closed or recv failed
P_Close ==
  /\ ppc = "recv"
  /\ ppc' = "exit"
  /\ UNCHANGED <<seg, opened, accessed, recvbuf, pidx, recvs, consumerVars,
                 deviceVars, latchVars, lastEv>>

ProducerMayWrite_Always(flag) == TRUE

ProducerMayWrite_WhenNotX(flag) == flag # FlagX

\* line 136: if (SharedRam[0] == 'x')
ProducerMayWrite(flag) == flag = FlagX

\* line 136: write the record or drop it
P_Check ==
  /\ ppc = "check"
  /\ IF ProducerMayWrite(seg[0])
     THEN ppc' = "print" /\ pidx' = 1
     ELSE ppc' = "recv" /\ pidx' = pidx
  /\ UNCHANGED <<seg, opened, accessed, recvbuf, recvs, consumerVars,
                 deviceVars, latchVars, lastEv>>

\* comm.print(s): the offsets written, in order: the payload bytes after the
\* first and the terminator, then offset 0, the byte the consumer tests
PrintOrder(s) == [k \in 1..Len(s) |-> k] \o <<0>>

\* line 138: one byte of comm.print(recvbuf)
P_Print ==
  /\ ppc = "print"
  /\ LET off == PrintOrder(recvbuf)[pidx]
         last == pidx = Len(PrintOrder(recvbuf))
     IN /\ seg' = [seg EXCEPT ![off] = CStrByte(recvbuf, off)]
        /\ pidx' = IF last THEN 1 ELSE pidx + 1
        /\ ppc' = IF last THEN "recv" ELSE "print"
        /\ lastEv' = IF last THEN Event("pub", recvbuf) ELSE lastEv
  /\ UNCHANGED <<opened, accessed, recvbuf, recvs, consumerVars, deviceVars,
                 latchVars>>

\* the producer has written some but not all bytes of a record
ProducerMidRecord == ppc = "print" /\ pidx > 1

(***************************************************************************)
(* The consumer: CServerDriver_ForDesktop::RunFrame, lines 805-897.        *)
(***************************************************************************)
HasData_WhenX(flag) == flag = FlagX

HasData_Always(flag) == TRUE

\* line 807: shramhasdata = (SharedRam[0] != 'x')
HasData(flag) == flag # FlagX

\* lines 806-808.  comm is never asked whether it opened: the pointer is
\* dereferenced whatever the outcome, and a segment that is not mapped
\* ends the frame with a fault.
RF_ReadFlag ==
  /\ cpc = "idle"
  /\ accessed' = accessed \cup {"consumer"}
  /\ IF opened["consumer"]
     THEN /\ shramhasdata' = HasData(seg[0])
          /\ cpc' = IF HasData(seg[0]) THEN "copy" ELSE "devices"
          /\ lastEv' = IF HasData(seg[0]) THEN lastEv ELSE Event("skip", <<>>)
     ELSE /\ cpc' = "fault"
          /\ UNCHANGED <<shramhasdata, lastEv>>
  /\ json' = <<>>
  /\ UNCHANGED <<seg, opened, producerVars, deviceVars, latchVars>>

\* line 810: std::string json = SharedRam, one byte at a time
RF_Copy ==
  /\ cpc = "copy"
  /\ IF Len(json) < Cap /\ seg[Len(json)] # NUL
     THEN json' = Append(json, seg[Len(json)]) /\ cpc' = cpc
     ELSE json' = json /\ cpc' = "devices"
  /\ UNCHANGED <<seg, opened, accessed, producerVars, shramhasdata, frames,
                 deviceVars, latchVars, lastEv>>

\* head->frontDire as controller i reads it.  Init calls setHead on
\* m_pController_l twice (lines 780, 787) and never on m_pController_r,
\* whose head pointer keeps no defined value.
HeadFrontRead(i, hd) == IF i = 1 THEN ReadOf(hd.frontDire) ELSE Indeterminate

\* lines 811-861: decode and route the payload, then RunFrame of the head
\* (GetPose only with a valid object id, line 435) and of both hands
\* (GetPose always, line 673).  kH, kR, kL are the keys GetAsyncKeyState
\* reports to the head, the right and the left hand; dx, dy the pointer.
RF_Devices(kH, dx, dy, kR, kL) ==
  /\ cpc = "devices"
  /\ LET hs == DecodedHands(shramhasdata, json, preControllerRot, hands)
         hd == IF objectId["hmd"]
               THEN HeadGetPose(head, mouseIsLocked, kH, dx, dy)
               ELSE head
     IN /\ preControllerRot' =
             DecodedPreRot(shramhasdata, json, preControllerRot)
        /\ head' = hd
        /\ badDerefs' = IF \E d \in {"r", "l"} : heap[d].head = "unset"
                        THEN badDerefs \cup {602}
                        ELSE badDerefs
        /\ \E fR \in HeadFrontRead(0, hd), fL \in HeadFrontRead(1, hd) :
             hands' = [i \in {0, 1} |->
                         ControllerGetPose(hs[i], IF i = 0 THEN kR ELSE kL,
                                           IF i = 0 THEN fR ELSE fL)]
        /\ poses' =
             [d \in Devices |->
                IF d = "hmd"
                THEN IF objectId["hmd"]
                     THEN Emitted(HeadPoseFlags, frames, HeadPosition(hd),
                                  <<hd.head_yaw, hd.head_pitch, hd.head_roll>>)
                     ELSE poses[d]
                ELSE LET i == IF d = "r" THEN 0 ELSE 1
                     IN Emitted(ControllerPoseFlags(rCtrlIsLocked), frames,
                                ControllerPosition(hands'[i], i, hd),
                                Angles(hands'[i]))]
  /\ cpc' = IF shramhasdata THEN "clear" ELSE "poll"
  /\ lastEv' = IF shramhasdata THEN Event("take", json) ELSE lastEv
  /\ UNCHANGED <<seg, opened, accessed, producerVars, shramhasdata, json,
                 frames, objectId, latchVars, server, heap, quat>>

DrainWrites_FlagFirst ==
  <<[off |-> 0, val |-> FlagX], [off |-> 1, val |-> NUL]>>

DrainWrites_FlagNul == <<[off |-> 1, val |-> NUL], [off |-> 0, val |-> NUL]>>

\* lines 865-866: SharedRam[1] = '\0'; SharedRam[0] = 'x';
DrainWrites == <<[off |-> 1, val |-> NUL], [off |-> 0, val |-> FlagX]>>

\* line 865
RF_ClearPayload ==
  /\ cpc = "clear"
  /\ seg' = [seg EXCEPT ![DrainWrites[1].off] = DrainWrites[1].val]
  /\ cpc' = "setflag"
  /\ UNCHANGED <<opened, accessed, producerVars, shramhasdata, json, frames,
                 deviceVars, latchVars, lastEv>>

\* line 866
RF_SetFlag ==
  /\ cpc = "setflag"
  /\ seg' = [seg EXCEPT ![DrainWrites[2].off] = DrainWrites[2].val]
  /\ cpc' = "poll"
  /\ UNCHANGED <<opened, accessed, producerVars, shramhasdata, json, frames,
                 deviceVars, latchVars, lastEv>>

Latch_Level(isOn, locked, continuing) ==
  <<IF isOn THEN ~locked ELSE locked, isOn>>

\* an edge-triggered toggle (lines 881-884, 893-896): <<locked, continuing>>
Latch(isOn, locked, continuing) ==
  <<IF isOn /\ ~continuing THEN ~locked ELSE locked, isOn>>

\* lines 869-896: the host's events, then the two latches
RF_Poll(kS) ==
  /\ cpc = "poll"
  /\ LET m == Latch("VK_MBUTTON" \in kS, mouseIsLocked, mouseMidOnIsContinuing)
         r == Latch("VK_RCONTROL" \in kS, rCtrlIsLocked, rCtrlOnIsCOntinuing)
     IN /\ mouseIsLocked' = m[1]
        /\ mouseMidOnIsContinuing' = m[2]
        /\ rCtrlIsLocked' = r[1]
        /\ rCtrlOnIsCOntinuing' = r[2]
  /\ cpc' = "idle"
  /\ UNCHANGED <<seg, opened, accessed, producerVars, shramhasdata, json,
                 frames, deviceVars, lastEv>>

(***************************************************************************)
(* Inputs of the bounded specification.                                    *)
(***************************************************************************)
NoKeys == {}

\* what GetAsyncKeyState reports during the device pass of one frame
DeviceKeys == {NoKeys, {"VK_END"}}

\* what GetAsyncKeyState reports to the latches
LatchKeys == {NoKeys, {"VK_MBUTTON"}}

\* pointer offsets from the screen centre, in pixels.  The pointer rests
\* here; it moves in the specifications of the keys and of the latches.
PointerOffsets == {0}

\* a recv() of the bounded specification
BoundedRecv ==
  /\ recvs < MaxRecv
  /\ P_Recv(RecvBufs)
  /\ recvs' = recvs + 1

\* a frame of the bounded specification
BoundedFrame ==
  /\ frames < MaxFrames
  /\ RF_ReadFlag
  /\ frames' = frames + 1

DevicePass ==
  \E k \in DeviceKeys, d \in PointerOffsets : RF_Devices(k, d, 0, k, k)

LatchPass == \E k \in LatchKeys : RF_Poll(k)

ProducerNext ==
  \/ P_Open
  \/ P_Init
  \/ BoundedRecv
  \/ P_Close
  \/ P_Check
  \/ P_Print

ConsumerNext ==
  \/ BoundedFrame
  \/ RF_Copy
  \/ DevicePass
  \/ RF_ClearPayload
  \/ RF_SetFlag
  \/ LatchPass

Next == ProducerNext \/ ConsumerNext

Spec == Init /\ [][Next]_vars

(***************************************************************************)
(* The segment may fail to open in either process.                         *)
(***************************************************************************)
InitOpen == InitWith([Procs -> BOOLEAN])

SpecOpen == InitOpen /\ [][Next]_vars

(***************************************************************************)
(* The decoder and the rotation delta on their own: the network delivers   *)
(* objects with other rotation samples and objects that lack members, no   *)
(* key is down and the pointer rests.                                      *)
(***************************************************************************)
DecodeRecv ==
  /\ recvs < MaxRecv
  /\ P_Recv(DecodeBufs)
  /\ recvs' = recvs + 1

DecodeDevicePass == RF_Devices(NoKeys, 0, 0, NoKeys, NoKeys)

DecodeLatchPass == RF_Poll(NoKeys)

DecodeNext ==
  \/ P_Open
  \/ P_Init
  \/ DecodeRecv
  \/ P_Close
  \/ P_Check
  \/ P_Print
  \/ BoundedFrame
  \/ RF_Copy
  \/ DecodeDevicePass
  \/ RF_ClearPayload
  \/ RF_SetFlag
  \/ DecodeLatchPass

SpecDecode == Init /\ [][DecodeNext]_vars

(***************************************************************************)
(* The keys and the pointer: the calibration keys, the pointer-lock key    *)
(* and a pointer that leaves the screen centre on both axes, with one      *)
(* record from the network.                                                *)
(***************************************************************************)
InputBufs == {RecRight, RecLeft, RecScenario}

InputKeys == {NoKeys, {"VK_END"}, {"VK_HOME"}}

InputLatchKeys == {NoKeys, {"VK_MBUTTON"}}

\* <<dx, dy>>
InputPointers == {<<0, 0>>, <<1, 2>>}

InputRecv ==
  /\ recvs < MaxInputRecv
  /\ P_Recv(InputBufs)
  /\ recvs' = recvs + 1

InputFrame ==
  /\ frames < MaxInputFrames
  /\ RF_ReadFlag
  /\ frames' = frames + 1

InputDevicePass ==
  \E k \in InputKeys, p \in InputPointers : RF_Devices(k, p[1], p[2], k, k)

InputLatchPass == \E k \in InputLatchKeys : RF_Poll(k)

InputNext ==
  \/ P_Open
  \/ P_Init
  \/ InputRecv
  \/ P_Close
  \/ P_Check
  \/ P_Print
  \/ InputFrame
  \/ RF_Copy
  \/ InputDevicePass
  \/ RF_ClearPayload
  \/ RF_SetFlag
  \/ InputLatchPass

SpecInput == Init /\ [][InputNext]_vars

(***************************************************************************)
(* The latches: the driver runs frames while ClientApp has not come up,    *)
(* the two latch keys go down and up in every combination, and the         *)
(* calibration keys and the pointer act on the devices.                    *)
(***************************************************************************)
LatchKeyNames == {"VK_MBUTTON", "VK_RCONTROL"}

LatchFrame ==
  /\ frames < MaxLatchFrames
  /\ RF_ReadFlag
  /\ frames' = frames + 1

LatchDevicePass ==
  \E k \in InputKeys, p \in InputPointers : RF_Devices(k, p[1], p[2], k, k)

AnyLatchPass == \E k \in SUBSET LatchKeyNames : RF_Poll(k)

LatchNext ==
  \/ LatchFrame
  \/ RF_Copy
  \/ LatchDevicePass
  \/ RF_ClearPayload
  \/ RF_SetFlag
  \/ AnyLatchPass

SpecLatch == Init /\ [][LatchNext]_vars

(***************************************************************************)
(* The life of the server driver: the host calls Init, activates and       *)
(* deactivates the devices it was given, calls RunFrame between Init and   *)
(* Cleanup, and calls Cleanup.  ClientApp is not running.  server.pc is    *)
(* the line the host's call of Init or Cleanup is at.                      *)
(***************************************************************************)
\* frames in the specification of the server's life
MaxServerFrames == 2

\* lines 773-776: new CForDesktopDeviceDriver(), TrackedDeviceAdded
Init_773 ==
  /\ server.pc = "start"
  /\ heap' = [heap EXCEPT !["hmd"].allocated = TRUE]
  /\ server' = [server EXCEPT !.m_pNullHmdLatest = "hmd", !.pc = "L778"]
  /\ UNCHANGED <<seg, opened, accessed, producerVars, consumerVars,
                 preControllerRot, hands, head, objectId, poses, latchVars,
                 lastEv, badDerefs, quat>>

\* lines 778-779: new CForDesktopControllerDriver(), setIndex(0)
Init_778 ==
  /\ server.pc = "L778"
  /\ heap' = [heap EXCEPT !["r"].allocated = TRUE]
  /\ server' = [server EXCEPT !.m_pController_r = "r", !.pc = "L780"]
  /\ UNCHANGED <<seg, opened, accessed, producerVars, consumerVars,
                 preControllerRot, hands, head, objectId, poses, latchVars,
                 lastEv, badDerefs, quat>>

\* to->setHead(m_pNullHmdLatest), line 484: head = _head.  Through a null
\* pointer the store is undefined: the call faults, or it returns and no
\* controller's head has been set.
SetHead(to, line, next) ==
  IF to = "nullptr"
  THEN /\ badDerefs' = badDerefs \cup {line}
       /\ \E outcome \in {"fault", next} :
            server' = [server EXCEPT !.pc = outcome]
       /\ heap' = heap
  ELSE /\ heap' = [heap EXCEPT ![to].head = server.m_pNullHmdLatest]
       /\ server' = [server EXCEPT !.pc = next]
       /\ badDerefs' = badDerefs

\* line 780: m_pController_l->setHead(m_pNullHmdLatest)
Init_780 ==
  /\ server.pc = "L780"
  /\ SetHead(server.m_pController_l, 780, "L781")
  /\ UNCHANGED <<seg, opened, accessed, producerVars, consumerVars,
                 preControllerRot, hands, head, objectId, poses, latchVars,
                 lastEv, quat>>

\* lines 781-786: TrackedDeviceAdded for m_pController_r,
\* new CForDesktopControllerDriver(), setIndex(1)
Init_781 ==
  /\ server.pc = "L781"
  /\ heap' = [heap EXCEPT !["l"].allocated = TRUE]
  /\ server' = [server EXCEPT !.m_pController_l = "l", !.pc = "L787"]
  /\ UNCHANGED <<seg, opened, accessed, producerVars, consumerVars,
                 preControllerRot, hands, head, objectId, poses, latchVars,
                 lastEv, badDerefs, quat>>

\* lines 787-792: m_pController_l->setHead(m_pNullHmdLatest),
\* TrackedDeviceAdded for m_pController_l, return
Init_787 ==
  /\ server.pc = "L787"
  /\ SetHead(server.m_pController_l, 787, "ready")
  /\ UNCHANGED <<seg, opened, accessed, producerVars, consumerVars,
                 preControllerRot, hands, head, objectId, poses, latchVars,
                 lastEv, quat>>

\* the host has been given device d by TrackedDeviceAdded (lines 774, 781,
\* 788)
Added(d) ==
  CASE d = "hmd" -> server.pc \in {"L778", "L780", "L781", "L787", "ready"}
    [] d = "r" -> server.pc \in {"L787", "ready"}
    [] d = "l" -> server.pc = "ready"

\* Activate (lines 198-199, 488-489): m_unObjectId = unObjectId
Activate(d) ==
  /\ Added(d)
  /\ cpc = "idle"
  /\ ~objectId[d]
  /\ objectId' = [objectId EXCEPT ![d] = TRUE]
  /\ UNCHANGED <<seg, opened, accessed, producerVars, consumerVars,
                 preControllerRot, hands, head, poses, latchVars, lastEv,
                 server, heap, badDerefs, quat>>

\* Deactivate (lines 271-273, 564-566):
\* m_unObjectId = k_unTrackedDeviceIndexInvalid
Deactivate(d) ==
  /\ Added(d)
  /\ cpc = "idle"
  /\ objectId[d]
  /\ objectId' = [objectId EXCEPT ![d] = FALSE]
  /\ UNCHANGED <<seg, opened, accessed, producerVars, consumerVars,
                 preControllerRot, hands, head, poses, latchVars, lastEv,
                 server, heap, badDerefs, quat>>

\* delete ptr: nothing for a null pointer
Delete(hp, ptr) ==
  IF ptr = "nullptr" THEN hp ELSE [hp EXCEPT ![ptr].released = @ + 1]

\* lines 797-798: delete m_pNullHmdLatest; m_pNullHmdLatest = NULL
Cleanup_797 ==
  /\ server.pc = "ready"
  /\ cpc = "idle"
  /\ heap' = Delete(heap, server.m_pNullHmdLatest)
  /\ server' = [server EXCEPT !.m_pNullHmdLatest = "nullptr", !.pc = "L799"]
  /\ UNCHANGED <<seg, opened, accessed, producerVars, consumerVars,
                 preControllerRot, hands, head, objectId, poses, latchVars,
                 lastEv, badDerefs, quat>>

\* lines 799-800: delete m_pController_r; m_pController_r = NULL
Cleanup_799 ==
  /\ server.pc = "L799"
  /\ heap' = Delete(heap, server.m_pController_r)
  /\ server' = [server EXCEPT !.m_pController_r = "nullptr", !.pc = "L801"]
  /\ UNCHANGED <<seg, opened, accessed, producerVars, consumerVars,
                 preControllerRot, hands, head, objectId, poses, latchVars,
                 lastEv, badDerefs, quat>>

\* lines 801-802: delete m_pController_r; m_pController_l = NULL
Cleanup_801 ==
  /\ server.pc = "L801"
  /\ heap' = Delete(heap, server.m_pController_r)
  /\ server' = [server EXCEPT !.m_pController_l = "nullptr", !.pc = "cleaned"]
  /\ UNCHANGED <<seg, opened, accessed, producerVars, consumerVars,
                 preControllerRot, hands, head, objectId, poses, latchVars,
                 lastEv, badDerefs, quat>>

\* the host calls RunFrame only between Init and Cleanup, where the three
\* pointers tested at lines 853, 856 and 859 are not null
ServerFrame ==
  /\ server.pc = "ready"
  /\ frames < MaxServerFrames
  /\ RF_ReadFlag
  /\ frames' = frames + 1

ServerDevicePass == RF_Devices(NoKeys, 0, 0, NoKeys, NoKeys)

ServerLatchPass == RF_Poll(NoKeys)

\* before Init: no object, no device activated (lines 146, 471)
InitServer ==
  /\ InitBridge({[p \in Procs |-> TRUE]})
  /\ server = NewServer
  /\ heap = [d \in Devices |-> NoObject]
  /\ badDerefs = {}
  /\ objectId = [d \in Devices |-> FALSE]
  /\ quat = NoQuat

ServerNext ==
  \/ Init_773
  \/ Init_778
  \/ Init_780
  \/ Init_781
  \/ Init_787
  \/ \E d \in Devices : Activate(d)
  \/ \E d \in Devices : Deactivate(d)
  \/ ServerFrame
  \/ RF_Copy
  \/ ServerDevicePass
  \/ RF_ClearPayload
  \/ RF_SetFlag
  \/ ServerLatchPass
  \/ Cleanup_797
  \/ Cleanup_799
  \/ Cleanup_801

SpecServer == InitServer /\ [][ServerNext]_vars

(***************************************************************************)
(* The quaternion computation on its own: the three half angles are any    *)
(* points of the circle, and the head's and the hand's formula are applied *)
(* to them.                                                                *)
(***************************************************************************)
QuatInputs ==
  {[pc |-> "in", yaw |-> y, roll |-> r, pitch |-> p, q |-> <<>>] :
     y \in UnitCircle, r \in UnitCircle, p \in UnitCircle}

InitQuat == InitReady({[p \in Procs |-> TRUE]}) /\ quat \in QuatInputs

\* lines 413-426
HeadQuat ==
  /\ quat.pc = "in"
  /\ quat' = [quat EXCEPT !.pc = "head",
                          !.q = HeadQuaternion(quat.yaw, quat.roll, quat.pitch)]
  /\ UNCHANGED <<seg, opened, accessed, producerVars, consumerVars,
                 preControllerRot, hands, head, objectId, poses, latchVars,
                 lastEv, server, heap, badDerefs>>

\* lines 627-640
ControllerQuat ==
  /\ quat.pc = "in"
  /\ quat' = [quat EXCEPT !.pc = "hand",
                          !.q = ControllerQuaternion(quat.yaw, quat.roll,
                                                     quat.pitch)]
  /\ UNCHANGED <<seg, opened, accessed, producerVars, consumerVars,
                 preControllerRot, hands, head, objectId, poses, latchVars,
                 lastEv, server, heap, badDerefs>>

QuatNext == HeadQuat \/ ControllerQuat

SpecQuat == InitQuat /\ [][QuatNext]_vars

(***************************************************************************)
(* The bridge left running: the host never stops calling RunFrame and the  *)
(* network never runs dry.  The records keep the rotation sample and no    *)
(* pointer moves, so that the device state stays within finitely many      *)
(* values.                                                                 *)
(***************************************************************************)
FreeRecv == P_Recv(RecvBufsStill) /\ UNCHANGED recvs

FreeFrame == RF_ReadFlag /\ UNCHANGED frames

StillDevicePass == \E k \in DeviceKeys : RF_Devices(k, 0, 0, k, k)

\* the producer's own steps: everything but waiting in recv()
ProducerProgress == P_Open \/ P_Init \/ P_Check \/ P_Print

LiveConsumerNext ==
  \/ FreeFrame
  \/ RF_Copy
  \/ StillDevicePass
  \/ RF_ClearPayload
  \/ RF_SetFlag
  \/ LatchPass

LiveNext == ProducerProgress \/ FreeRecv \/ P_Close \/ LiveConsumerNext

\* the host calls RunFrame again and again; the producer's loop runs
SpecLive ==
  /\ Init
  /\ [][LiveNext]_vars
  /\ WF_vars(LiveConsumerNext)
  /\ WF_vars(ProducerProgress)

(***************************************************************************)
(* Properties of the handshake.                                            *)
(***************************************************************************)
\* a step of the consumer that writes the segment
ConsumerWrites == cpc \in {"clear", "setflag"} /\ cpc' # cpc

\* a step of the producer that writes the segment
ProducerWrites == ppc \in {"init", "print"} /\ (ppc' # ppc \/ pidx' # pidx)

\* the next handshake event after a completed print of record r is the
\* consumer taking exactly r
TakenNext(r) ==
  (lastEv.kind = "pub" /\ lastEv.rec = r /\ lastEv' # lastEv)
    => (lastEv'.kind = "take" /\ lastEv'.rec = r)

\* the frame after one that took a payload, with no producer write in
\* between, takes nothing
TakenOnce ==
  (lastEv.kind = "take" /\ lastEv' # lastEv) => lastEv'.kind # "take"

\* C1: after the producer publishes one record, whatever its bytes, the
\* consumer's next frame takes exactly those bytes, and a second frame with
\* no publish in between takes nothing.
C1_AnyRecordTakenOnce ==
  [][(\A r \in RecvBufs : TakenNext(r)) /\ TakenOnce]_vars

\* What the handshake does deliver: a published record whose first byte is
\* not 'x' is taken by the consumer's next frame, byte for byte, and a
\* second frame with no publish in between takes nothing.
DeliveredOnce ==
  [][(\A r \in RecvBufs : r[1] # FlagX => TakenNext(r)) /\ TakenOnce]_vars

\* what the consumer may decode: a whole received text, or the empty string
\* of a zeroed segment
WholeRecords == RecvBufs \cup {<<>>}

C4_FlagXIsReady ==
  [][seg'[0] # seg[0] =>
       \/ ProducerWrites /\ seg[0] # FlagX /\ seg'[0] = FlagX
       \/ ConsumerWrites /\ seg[0] = FlagX /\ seg'[0] # FlagX]_vars

\* C4 amended: with byte 0 = 'x' as EMPTY and any other value as READY, the
\* flag changes state only EMPTY -> READY by the producer and
\* READY -> EMPTY by the consumer; the consumer writes no value but 'x' to
\* byte 0, and the producer never turns another value into 'x'.
C4_FlagTransitions ==
  [][/\ seg'[0] # seg[0] =>
          \/ ProducerWrites /\ seg[0] = FlagX /\ seg'[0] # FlagX
          \/ ConsumerWrites /\ seg[0] # FlagX /\ seg'[0] = FlagX
     /\ (cpc = "setflag" /\ cpc' # cpc) => seg'[0] = FlagX]_vars

\* the flag has gone EMPTY -> READY -> EMPTY: a record was published, taken
\* and drained
C4_Witness ==
  /\ lastEv.kind = "take"
  /\ lastEv.rec \in RecvBufs
  /\ seg[0] = FlagX

\* C5 as stated: the consumer takes a payload exactly when byte 0 is 'x',
\* and the producer writes only when byte 0 is not 'x'.
C5_XMeansReady ==
  [][/\ (cpc = "idle" /\ cpc' \in {"copy", "devices"})
          => ((cpc' = "copy") <=> (seg[0] = FlagX))
     /\ (ppc = "check" /\ ppc' = "print") => seg[0] # FlagX]_vars

\* C5 amended: byte 0 equal to 'x' means the segment is drained and any
\* other value means a record is present; the JSON text starts at byte 0,
\* so its first byte is the flag.  The consumer takes a payload in a frame
\* exactly when byte 0 is not 'x', what it decodes is the C string at
\* offset 0, and the producer writes a record only when byte 0 is 'x'.
C5_XMeansDrained ==
  [][/\ (cpc = "idle" /\ cpc' \in {"copy", "devices"})
          => ((cpc' = "copy") <=> (seg[0] # FlagX))
     /\ (cpc = "copy" /\ cpc' = "devices") => json = CStrAt(seg)
     /\ (ppc = "check" /\ ppc' = "print") => seg[0] = FlagX
     /\ (ppc = "check" /\ ppc' = "recv") => seg[0] # FlagX]_vars

\* a frame took and decoded a record, and the producer dropped one
C5_Witness ==
  /\ lastEv.kind = "take"
  /\ ParseOk(lastEv.rec)
  /\ ppc = "recv"
  /\ recvs = 2

\* C6: under fairness every record the producer writes into the
\* channel, whatever its bytes, is eventually taken by the consumer, and
\* the channel becomes writable again.
C6_EveryRecordTaken ==
  \A r \in RecvBufsStill :
    (lastEv.kind = "pub" /\ lastEv.rec = r)
      ~> (lastEv.kind = "take" /\ lastEv.rec = r /\ seg[0] = FlagX)

\* What the handshake does guarantee under fairness: every record the
\* producer writes whose first byte is not 'x' is eventually taken by the
\* consumer, exactly once, and the channel then becomes writable again;
\* whenever byte 0 is not 'x' the consumer eventually drains it.
EventuallyDelivered ==
  /\ \A r \in RecvBufsStill :
       (lastEv.kind = "pub" /\ lastEv.rec = r /\ r[1] # FlagX)
         ~> (lastEv.kind = "take" /\ lastEv.rec = r /\ seg[0] = FlagX)
  /\ (seg[0] # FlagX) ~> (seg[0] = FlagX)
  /\ [][TakenOnce]_vars

(***************************************************************************)
(* Properties of a failed open and of the frame's effect on the devices.   *)
(***************************************************************************)
\* C7: a process whose segment failed to open never dereferences the
\* segment pointer.
C7_NoAccessAfterFailedOpen == \A p \in accessed : opened[p]

\* a frame's device pass in which no key is down and the pointer is at the
\* screen centre
QuietDevicePass == RF_Devices(NoKeys, 0, 0, NoKeys, NoKeys)

\* the position and orientation accumulators of the three devices
Accumulators ==
  <<head.head_yaw, head.head_pitch, head.head_roll, head.x, head.y, head.z,
    [i \in {0, 1} |->
       <<hands[i].controller_roll, hands[i].controller_pitch,
         hands[i].controller_yaw, hands[i].rawPosValues,
         hands[i].posCorrectionValues>>]>>

\* the frame took a payload that is not JSON
TookMalformed == shramhasdata /\ ~ParseOk(json)

\* the frame took a JSON record whose id is neither 0 nor 1
TookUnknownId == shramhasdata /\ ParseOk(json) /\ JsonId(json) \notin {0, 1}

\* the frame took a JSON record for hand i
TookRecordFor(i) == shramhasdata /\ ParseOk(json) /\ JsonId(json) = i

\* C8: a frame whose payload is malformed JSON, with no key input, leaves
\* the head's and both hands' position and orientation accumulators as
\* they were before the frame.
C8_MalformedKeepsPoses ==
  [][(QuietDevicePass /\ TookMalformed) => Accumulators' = Accumulators]_vars

\* C9: a decoded record whose id is neither 0.0 nor 1.0 changes no engine
\* state: neither hand's inputs, rotation deltas or accumulators, nor the
\* stored previous rotation sample.
C9_UnknownIdChangesNothing ==
  [][(QuietDevicePass /\ TookUnknownId)
       => UNCHANGED <<hands, preControllerRot>>]_vars

\* C10: in a frame that brings no record for a hand, that hand's rotation
\* delta is zero for the tick and its roll/pitch/yaw accumulators are not
\* changed.
C10_NoRecordNoRotation ==
  [][\A i \in {0, 1} :
       (QuietDevicePass /\ ~TookRecordFor(i))
         => /\ hands'[i].rotDiffValues = Zero3
            /\ hands'[i].controller_roll = hands[i].controller_roll
            /\ hands'[i].controller_pitch = hands[i].controller_pitch
            /\ hands'[i].controller_yaw = hands[i].controller_yaw]_vars

(***************************************************************************)
(* Properties of routing and of the rotation delta.                        *)
(***************************************************************************)
\* the fields setInputValues stores
Inputs(c) ==
  <<c.rawPosValues, c.rotDiffValues, c.trackpadValues, c.trackpadClicked,
    c.triggerValue>>

\* C11: a frame that takes a valid record for hand i (0 right, 1 left), with
\* no key down, stores the record's fields in hand i only and adds its
\* delta to hand i's accumulators; the other hand's rotation delta is
\* exactly zero for the tick, its other inputs and its accumulators keep
\* their values, and the head is not changed.
C11_RecordUpdatesOneHand ==
  [][\A i \in {0, 1} :
       (QuietDevicePass /\ TookRecordFor(i))
         => /\ hands'[i].rawPosValues = JsonPos(json)
            /\ hands'[i].trackpadValues = JsonTrackpad(json)
            /\ hands'[i].trackpadClicked = JsonClicked(json)
            /\ hands'[i].triggerValue = JsonTrigger(json)
            /\ Angles(hands'[i])
                 = [k \in 1..3 |->
                      Angles(hands[i])[k] + hands'[i].rotDiffValues[k]]
            /\ hands'[1 - i].rotDiffValues = Zero3
            /\ Angles(hands'[1 - i]) = Angles(hands[1 - i])
            /\ hands'[1 - i].rawPosValues = hands[1 - i].rawPosValues
            /\ hands'[1 - i].posCorrectionValues
                 = hands[1 - i].posCorrectionValues
            /\ hands'[1 - i].trackpadValues = hands[1 - i].trackpadValues
            /\ hands'[1 - i].trackpadClicked = hands[1 - i].trackpadClicked
            /\ hands'[1 - i].triggerValue = hands[1 - i].triggerValue
            /\ head' = head]_vars

\* a frame took a record for the right hand after the left hand had received
\* a rotation: the left hand's delta is zero again and the right hand holds
\* the record's position
C11_Witness ==
  /\ cpc = "clear"
  /\ lastEv.kind = "take"
  /\ lastEv.rec = RecRight
  /\ hands[0].rawPosValues = JsonPos(RecRight)
  /\ hands[1].controller_roll # 0
  /\ hands[1].rotDiffValues = Zero3

\* the previous absolute rotation sample that hand i's next delta is
\* computed against: the one array preControllerRot for both hands
PreviousSampleOf(i) == preControllerRot

\* C12: the previous rotation sample of a hand is replaced only in a frame
\* that takes a record for that hand; a frame that takes a record for the
\* other hand or for an unknown id, or no record, leaves it untouched.
C12_PreviousSamplePerDevice ==
  [][\A i \in {0, 1} :
       (cpc = "devices" /\ cpc' # cpc /\ ~TookRecordFor(i))
         => PreviousSampleOf(i)' = PreviousSampleOf(i)]_vars

\* a frame's device pass that takes a decoded record for hand i
AppliesRecordTo(i) == cpc = "devices" /\ cpc' # cpc /\ TookRecordFor(i)

\* the delta of the wraparound rule with a non-negative remainder, in units
\* of 1/3600: ((current - previous) mod 90) / 360
WrapDelta(cur, pre) == [k \in 1..3 |-> 10 * ((cur[k] - pre[k]) % 90)]

\* d, in units of 1/3600, is the remainder of diff degrees by a quarter turn
\* that keeps the sign of diff: diff - d is a whole number of quarter turns,
\* d is smaller than a quarter turn and is not of the opposite sign
IsSignedRemainder(d, diff) ==
  /\ (10 * diff - d) % 900 = 0
  /\ d > -900
  /\ d < 900
  /\ d * diff >= 0

\* C13 as stated: the delta a record gives its hand is, on every axis,
\* ((current - previous) mod 90) / 360 with a non-negative remainder, so
\* previous = 85, current = 5 gives 10 / 360.
C13_DeltaWrapsNonNegative ==
  [][\A i \in {0, 1} :
       AppliesRecordTo(i)
         => hands'[i].rotDiffValues
              = WrapDelta(JsonRot(json), preControllerRot)]_vars

\* C13 amended: the delta is fmod(current - previous, 90) / 360 with the
\* remainder of C's fmod, which keeps the sign of the difference: a
\* negative difference gives a negative delta, and previous = 85,
\* current = 5 gives -80 / 360.
C13_DeltaKeepsSign ==
  [][\A i \in {0, 1} :
       AppliesRecordTo(i)
         => \A k \in 1..3 :
              /\ IsSignedRemainder(hands'[i].rotDiffValues[k],
                                   JsonRot(json)[k] - preControllerRot[k])
              /\ (preControllerRot[k] = 85 /\ JsonRot(json)[k] = 5)
                   => hands'[i].rotDiffValues[k] = -800]_vars

\* the right hand took the sample (5, 85, -5) after (85, 5, 185): the
\* differences are -80, 80 and -190 degrees
C13_Witness ==
  /\ cpc = "clear"
  /\ lastEv.kind = "take"
  /\ lastEv.rec = RecRotD
  /\ preControllerRot = JsonRot(RecRotD)
  /\ hands[0].rotDiffValues = <<-800, 800, -100>>

\* C14: the delta is determined by (previous, current) alone, each
\* computation replaces previous by current and no other step changes it,
\* so computing the delta again with the same current sample gives 0 on
\* every axis.
C14_SameSampleTwice ==
  [][/\ \A i \in {0, 1} :
          AppliesRecordTo(i)
            => /\ \A k \in 1..3 :
                    IsSignedRemainder(hands'[i].rotDiffValues[k],
                                      JsonRot(json)[k] - preControllerRot[k])
               /\ preControllerRot' = JsonRot(json)
               /\ (JsonRot(json) = preControllerRot)
                    => hands'[i].rotDiffValues = Zero3
     /\ (preControllerRot' # preControllerRot)
          => (cpc = "devices" /\ shramhasdata /\ ParseOk(json))]_vars

\* the right hand took the sample (85, 5, 185) twice in a row: the first
\* delta reached the accumulators, the second is zero
C14_Witness ==
  /\ cpc = "clear"
  /\ lastEv.kind = "take"
  /\ lastEv.rec = RecRotC
  /\ preControllerRot = JsonRot(RecRotC)
  /\ hands[0].rotDiffValues = Zero3
  /\ Angles(hands[0]) = <<850, 50, 50>>

(***************************************************************************)
(* Properties of the latches and of the keys.                              *)
(***************************************************************************)
\* C15: each latch flips exactly when its key is down in this poll and was
\* up in the previous one, and holds otherwise; the previous sample a poll
\* compares with is the sample of the poll before it, and no other step
\* changes a latch.
C15_LatchTogglesOnRisingEdge ==
  [][/\ \A k \in SUBSET LatchKeyNames :
          RF_Poll(k)
            => /\ (mouseIsLocked' # mouseIsLocked)
                    <=> ("VK_MBUTTON" \in k /\ ~mouseMidOnIsContinuing)
               /\ mouseMidOnIsContinuing' = ("VK_MBUTTON" \in k)
               /\ (rCtrlIsLocked' # rCtrlIsLocked)
                    <=> ("VK_RCONTROL" \in k /\ ~rCtrlOnIsCOntinuing)
               /\ rCtrlOnIsCOntinuing' = ("VK_RCONTROL" \in k)
     /\ (latchVars' # latchVars) => cpc = "poll"]_vars

\* the pointer-lock key is down after the latch has flipped twice, and the
\* tracking-lock latch has flipped once and holds with its key released
C15_Witness ==
  /\ cpc = "idle"
  /\ frames >= 3
  /\ ~mouseIsLocked
  /\ mouseMidOnIsContinuing
  /\ ~rCtrlIsLocked
  /\ ~rCtrlOnIsCOntinuing

\* C16: every frame gives the host a pose of each hand; the pose says
\* connected, its valid flag is the tracking-lock latch, and its result is
\* running-OK with the latch engaged and out-of-range with it disengaged.
C16_HandPoseFollowsLatch ==
  \A h \in {"r", "l"} :
    cpc \in {"clear", "setflag", "poll"}
      => /\ poses[h].emitted
         /\ poses[h].frame = frames
         /\ poses[h].deviceIsConnected
         /\ poses[h].poseIsValid = rCtrlIsLocked
         /\ poses[h].result
              = IF rCtrlIsLocked THEN "Running_OK" ELSE "Running_OutOfRange"

\* a frame gave the host hand poses marked out-of-range
C16_Witness ==
  /\ cpc = "poll"
  /\ ~rCtrlIsLocked
  /\ poses["r"].emitted
  /\ poses["r"].result = "Running_OutOfRange"
  /\ ~poses["l"].poseIsValid
  /\ poses["l"].deviceIsConnected

\* hand i's accumulators after a device pass, less the delta the pass added
AnglesBeforeDelta(i) ==
  [k \in 1..3 |-> Angles(hands'[i])[k] - hands'[i].rotDiffValues[k]]

\* hand i's angles were reset in this pass: roll and yaw to zero, pitch to
\* the head's front direction
AnglesReset(i) ==
  /\ AnglesBeforeDelta(i)[1] = 0
  /\ AnglesBeforeDelta(i)[3] = 0
  /\ AnglesBeforeDelta(i)[2] \in ReadOf(head'.frontDire)

\* the effect of the two calibration keys on hand i in a device pass with
\* the keys k down
Calibrated(i, k) ==
  /\ "VK_HOME" \in k
       => /\ hands'[i].posCorrectionValues = hands'[i].rawPosValues
          /\ AnglesReset(i)
  /\ ("VK_END" \in k /\ "VK_HOME" \notin k)
       => /\ hands'[i].posCorrectionValues = hands[i].posCorrectionValues
          /\ AnglesReset(i)
  /\ k = NoKeys
       => /\ hands'[i].posCorrectionValues = hands[i].posCorrectionValues
          /\ AnglesBeforeDelta(i) = Angles(hands[i])

\* C17: in any frame, the full calibration key sets a hand's position
\* correction to its current raw position and resets its roll and yaw to
\* zero and its pitch to the head's front direction; the angles-only key
\* resets the angles the same way and leaves the position correction as it
\* was.  This for both hands.
C17_CalibrationTriggers ==
  [][\A k \in InputKeys, p \in InputPointers :
       RF_Devices(k, p[1], p[2], k, k)
         => \A i \in {0, 1} : Calibrated(i, k)]_vars

\* What the two keys do for the hand whose head pointer Init sets, the left
\* one, and to the position correction of both hands.
CalibrationOfLeftHand ==
  [][\A k \in InputKeys, p \in InputPointers :
       RF_Devices(k, p[1], p[2], k, k)
         => /\ Calibrated(1, k)
            /\ "VK_HOME" \in k
                 => hands'[0].posCorrectionValues = hands'[0].rawPosValues
            /\ "VK_HOME" \notin k
                 => hands'[0].posCorrectionValues
                      = hands[0].posCorrectionValues]_vars

\* C18: in a frame with the head's calibration key down the head's yaw is
\* zero and its front direction is its pitch of that frame, and the angle
\* reset of both hands in the same frame sets their pitch to that front
\* direction.
C18_HandsUseSnapshotOfSameFrame ==
  [][\A k \in InputKeys, p \in InputPointers :
       (RF_Devices(k, p[1], p[2], k, k) /\ "VK_END" \in k)
         => /\ head'.head_yaw = 0
            /\ head'.frontDire = Def(head'.head_pitch)
            /\ \A i \in {0, 1} :
                 AnglesBeforeDelta(i)[2] = head'.head_pitch]_vars

\* What the head's calibration key does for the head and the left hand.
LeftHandUsesSnapshotOfSameFrame ==
  [][\A k \in InputKeys, p \in InputPointers :
       (RF_Devices(k, p[1], p[2], k, k) /\ "VK_END" \in k)
         => /\ head'.head_yaw = 0
            /\ head'.frontDire = Def(head'.head_pitch)
            /\ AnglesBeforeDelta(1)[2] = head'.head_pitch]_vars

\* C19: a device pass with the pointer-lock latch off leaves the head's
\* pitch and roll as they were, whatever the pointer position; with the
\* latch on it adds the pointer's offsets to them.
C19_PointerMovesHeadOnlyWhenLocked ==
  [][\A k \in InputKeys, p \in InputPointers :
       RF_Devices(k, p[1], p[2], k, k)
         => /\ ~mouseIsLocked
                 => /\ head'.head_pitch = head.head_pitch
                    /\ head'.head_roll = head.head_roll
            /\ mouseIsLocked
                 => /\ head'.head_pitch = head.head_pitch + 36 * p[1]
                    /\ head'.head_roll = head.head_roll + 36 * p[2]]_vars

\* the pointer turned the head while the latch was on, the latch went off,
\* and a further device pass left pitch and roll where they were
C19_Witness ==
  /\ cpc = "poll"
  /\ frames = 4
  /\ ~mouseIsLocked
  /\ head.head_pitch = 36
  /\ head.head_roll = 72

(***************************************************************************)
(* Properties of the decoder.                                              *)
(***************************************************************************)
\* the hand an object is for when a missing "id" counts as 0.0; 2 for none
HandOf(js) ==
  IF ~HasId(js) \/ js[2] = "0" THEN 0 ELSE IF js[2] = "1" THEN 1 ELSE 2

FailedFramePass ==
  cpc = "devices" /\ cpc' # cpc /\ (TookMalformed \/ TookUnknownId)

\* a frame that took a payload it could not decode or route still drains
\* the segment: it goes on to the two writes, the second of which puts 'x'
\* in byte 0
FailedFrameDrains ==
  /\ FailedFramePass => cpc' = "clear"
  /\ (cpc = "clear" /\ cpc' # cpc) => cpc' = "setflag"
  /\ (cpc = "setflag" /\ cpc' # cpc) => seg'[0] = FlagX

\* no record has reached a hand since start-up
NoRecordApplied == \A i \in {0, 1} : Inputs(hands[i]) = Inputs(NewController)

\* C21: a frame whose record is malformed or for an unknown device still
\* drains the segment and leaves nothing behind for later frames: the first
\* record for a hand that is taken after it is applied as it is after
\* start-up, with its delta taken against the initial previous sample.
C21_FailedFrameIsIsolated ==
  [][/\ FailedFrameDrains
     /\ \A i \in {0, 1} :
          (AppliesRecordTo(i) /\ NoRecordApplied)
            => /\ hands'[i].rawPosValues = JsonPos(json)
               /\ hands'[i].rotDiffValues = RotDiff(JsonRot(json), Zero3)]_vars

\* What does hold of a failed frame: the segment is drained, so that the
\* producer may write again.
FailedFrameIsDrained == [][FailedFrameDrains]_vars

(***************************************************************************)
(* Properties of the hand positions.                                       *)
(***************************************************************************)
\* every member of the head that a hand position is composed of has a value
HeadIsPlaced(hd) ==
  hd.frontDire # Undef /\ hd.x # Undef /\ hd.y # Undef /\ hd.z # Undef

\* the position of hand d's pose is its raw position less the correction
\* plus the lateral offset (+0.2 right, -0.2 left) and the drop of 0.3,
\* turned by the head's front direction and moved by the head's position
PositionComposed(d, i) ==
  /\ poses'[d].vecPosition.local
       = <<hands'[i].rawPosValues[1] - hands'[i].posCorrectionValues[1]
             + (IF i = 0 THEN 20 ELSE -20),
           hands'[i].rawPosValues[2] - hands'[i].posCorrectionValues[2] - 30,
           hands'[i].rawPosValues[3] - hands'[i].posCorrectionValues[3] - 30>>
  /\ poses'[d].vecPosition.front = head'.frontDire
  /\ poses'[d].vecPosition.origin = HeadPosition(head')

\* the frame's device pass takes the record of the end-to-end scenario, with
\* no key down and the pointer at rest
ScenarioPass == QuietDevicePass /\ shramhasdata /\ json = RecScenario

\* C22: after the record {id 0, translation (1,0,0), rotation (0,0,0)} and
\* one frame, the right hand's raw position is (1,0,0), the position of its
\* pose is (raw - correction) plus the +0.2 lateral offset turned by the
\* head's front direction and moved by the head's position, both of which
\* are values, and the left hand's pose is the pose of the frame before.
C22_ScenarioRightHandPosition ==
  [][ScenarioPass
       => /\ hands'[0].rawPosValues = <<100, 0, 0>>
          /\ PositionComposed("r", 0)
          /\ HeadIsPlaced(head')
          /\ poses["l"].emitted
               => poses'["l"] = [poses["l"] EXCEPT !.frame = frames]]_vars

\* What the scenario does give: the right hand's raw position and the local
\* part of its position, the left hand's position composed with the head's
\* members whatever they hold, and the left hand's pose as it was.
ScenarioLeftHandAndLocalPart ==
  [][ScenarioPass
       => /\ hands'[0].rawPosValues = <<100, 0, 0>>
          /\ poses'["r"].vecPosition.local
               = <<100 - hands[0].posCorrectionValues[1] + 20,
                   0 - hands[0].posCorrectionValues[2] - 30,
                   0 - hands[0].posCorrectionValues[3] - 30>>
          /\ PositionComposed("l", 1)
          /\ poses["l"].emitted
               => poses'["l"] = [poses["l"] EXCEPT !.frame = frames]]_vars

(***************************************************************************)
(* Properties of the quaternions.                                          *)
(***************************************************************************)
\* C23: the quaternion the head's and the hand's pose computation give is
\* of norm 1 whatever the yaw, roll and pitch accumulators are: with any
\* three half angles, w^2 + x^2 + y^2 + z^2 is exactly 1 in exact
\* arithmetic, which leaves the rounding of the double operations as the
\* only departure from 1.
C23_QuaternionIsUnit ==
  quat.pc \in {"head", "hand"}
    => Norm2(quat.q) = Radius * Radius * Radius * Radius * Radius * Radius

\* the hand's formula has been applied to three half angles none of which
\* lies on an axis, in three different quadrants
C23_Witness ==
  /\ quat.pc = "hand"
  /\ quat.yaw = <<3, 4>>
  /\ quat.roll = <<-4, 3>>
  /\ quat.pitch = <<4, -3>>
  /\ quat.q = <<-84, -12, 84, -37>>

(***************************************************************************)
(* Properties of the producer's writes.                                    *)
(***************************************************************************)
\* the segment holds a whole record that the consumer has not drained
Undrained == CStrAt(seg) \in RecvBufs

\* the producer writes a record only after it has seen 'x' in byte 0, and a
\* record received while byte 0 is not 'x' is dropped: the producer goes
\* back to recv() and the segment is not written
WritesOnlyWhenFlagDrained ==
  /\ (ppc = "check" /\ ppc' = "print") => seg[0] = FlagX
  /\ (ppc = "check" /\ ppc' # ppc /\ seg[0] # FlagX)
       => (ppc' = "recv" /\ seg' = seg)
  /\ (ppc = "print" /\ pidx' # pidx /\ pidx > 1) => seg[0] = FlagX

\* C24: the producer never overwrites a record the consumer has not yet
\* drained: it starts to write only when byte 0 shows the drained state,
\* the segment then holds no undrained record, and a record received while
\* the previous one is pending is dropped.
C24_NoOverwriteOfUndrained ==
  [][/\ WritesOnlyWhenFlagDrained
     /\ (ppc = "check" /\ ppc' = "print") => ~Undrained]_vars

\* What the producer does guarantee: it writes only when byte 0 is 'x',
\* drops what it receives otherwise, and never overwrites an undrained
\* record whose first byte is not 'x'.
NoOverwriteOfFlaggedRecord ==
  [][/\ WritesOnlyWhenFlagDrained
     /\ (ppc = "check" /\ ppc' = "print")
          => CStrAt(seg) \notin (RecvBufs \ {RecX})]_vars

(***************************************************************************)
(* Properties of the server's life.                                        *)
(***************************************************************************)
\* the three device pointers of the server
DevicePointers ==
  <<server.m_pNullHmdLatest, server.m_pController_r, server.m_pController_l>>

\* C25: once Init has returned the head and both hands exist and each
\* hand's head pointer is the head; Init always returns, and neither Init
\* nor a later RunFrame dereferences a pointer that is null or was never
\* set.
C25_InitLeavesPointersSet ==
  /\ server.pc # "fault"
  /\ badDerefs = {}
  /\ server.pc = "ready"
       => /\ DevicePointers = <<"hmd", "r", "l">>
          /\ \A d \in Devices : heap[d].allocated /\ heap[d].released = 0
          /\ heap["r"].head = "hmd"
          /\ heap["l"].head = "hmd"

\* What Init does leave when it returns: the three objects exist, the three
\* pointers are set, and the left hand's head pointer is the head.
InitLeavesDevicesAndLeftHead ==
  server.pc = "ready"
    => /\ DevicePointers = <<"hmd", "r", "l">>
       /\ \A d \in Devices : heap[d].allocated /\ heap[d].released = 0
       /\ heap["l"].head = "hmd"

\* C26: after Cleanup each of the three objects Init created has been
\* released exactly once and the three pointers are null.
C26_CleanupReleasesEachOnce ==
  server.pc = "cleaned"
    => /\ \A d \in Devices : heap[d].allocated /\ heap[d].released = 1
       /\ DevicePointers = <<"nullptr", "nullptr", "nullptr">>

\* What Cleanup does leave: the three pointers are null, the head and the
\* right hand have been released once, and nothing is released twice.
CleanupNullsPointers ==
  /\ \A d \in Devices : heap[d].released <= 1
  /\ server.pc = "cleaned"
       => /\ heap["hmd"].released = 1
          /\ heap["r"].released = 1
          /\ DevicePointers = <<"nullptr", "nullptr", "nullptr">>

\* C27: a device whose object id is invalid, because it was never activated
\* or was deactivated, gives the host no pose in RunFrame: the device pass
\* leaves the last pose of such a device as it was.
C27_InactiveDeviceEmitsNoPose ==
  [][\A d \in Devices :
       (cpc = "devices" /\ cpc' # cpc /\ ~objectId[d])
         => poses'[d] = poses[d]]_vars

\* What holds of it: the head gives no pose while its object id is invalid.
InactiveHeadEmitsNoPose ==
  [][(cpc = "devices" /\ cpc' # cpc /\ ~objectId["hmd"])
       => poses'["hmd"] = poses["hmd"]]_vars

(***************************************************************************)
(* Properties of the head's yaw.                                           *)
(***************************************************************************)
\* C28: the head's yaw accumulator is zero in every reachable state: the
\* pointer feeds pitch and roll only and the calibration key sets yaw to
\* zero, so every head pose given to the host was computed with yaw zero
\* and the yaw terms of its quaternion are cos 0 and sin 0.
C28_HeadYawIsZero ==
  /\ head.head_yaw = 0
  /\ poses["hmd"].emitted => poses["hmd"].angles[1] = 0

\* the pointer has turned the head with the pointer lock on, the
\* calibration key has then taken its pitch as the front direction, and the
\* host holds a head pose of that frame
C28_Witness ==
  /\ cpc = "poll"
  /\ head.head_pitch # 0
  /\ head.head_roll # 0
  /\ head.frontDire = Def(head.head_pitch)
  /\ poses["hmd"].emitted
  /\ poses["hmd"].frame = frames
  /\ poses["hmd"].angles = <<0, head.head_pitch, head.head_roll>>


=============================================================================
